---- MODULE Spec2Model ----
(***************************************************************************)
(* A model of the replication core of storyteller: the Patch value         *)
(* (src/src/patch.rs), the relational object store                          *)
(* (src/src/store/sqlite.rs), the Peer (src/src/peer.rs) and the            *)
(* reconciliation driver used by the tests of peer.rs.                      *)
(*                                                                         *)
(* A patch ID is the BLAKE3 digest of (author, parents in order, payload). *)
(* The digest is modelled as an ideal (injective) hash: the triple itself.  *)
(* An Ed25519 signature is modelled by what it binds: the signer and the    *)
(* signed message.                                                          *)
(***************************************************************************)
EXTENDS Integers, Sequences, FiniteSets, TLC

VARIABLES store, heads, last, phase

vars == <<store, heads, last, phase>>

(***************************************************************************)
(* Bounds of the model.                                                     *)
(***************************************************************************)
\* longest batch handed to one Peer.integrate call by the environment
MaxBatch == 2
\* Peer.commit is not called on a store that already holds this many patches
MaxPatches == 3

Peers == {1, 2}
\* the peer whose calls the single-peer specification explores
L == 1
\* the other peer of the two-peer specification
R == 2
\* signing key of an author that is not a peer of the model
FKey == 3
\* payloads Peer.commit is called with
Payloads == {"g"}

\* SQL NULL, the value of a scalar subquery that selects no row
NULL == 0

(***************************************************************************)
(* Sequences.                                                               *)
(***************************************************************************)
Range(s) == {s[i] : i \in DOMAIN s}

SeqContains(s, x) == \E i \in DOMAIN s : s[i] = x

(***************************************************************************)
(* patch.rs                                                                 *)
(***************************************************************************)
\* Vec::dedup: removes consecutive repeated elements only
RECURSIVE dedup(_)
dedup(v) ==
    IF Len(v) <= 1 THEN v
    ELSE LET r == dedup(Tail(v))
         IN  IF Head(v) = Head(r) THEN r ELSE <<Head(v)>> \o r

\* Deps::from_iter
Deps_from_iter(ids) == dedup(ids)

\* Patch::hash: author, then every parent in iteration order, then the payload
hash(author, deps, data) == <<author, deps, data>>

\* SigningKey::sign over the payload bytes
sign(key, data) == [signer |-> key, msg |-> data]

\* Patch::new
Patch_new(key, deps, data) ==
    LET d == Deps_from_iter(deps)
    IN  [id     |-> hash(key, d, data),
         deps   |-> d,
         author |-> key,
         sign   |-> sign(key, data),
         data   |-> data]

\* a verify that checks the signed message and not the key that signed it
verify_any_key(patch) == patch.sign.msg = patch.data

\* Patch::verify: the signature verifies the payload under the author's key
verify(patch) == patch.sign = [signer |-> patch.author, msg |-> patch.data]

(***************************************************************************)
(* store/sqlite.rs: the tables are sequences in rowid order; seq_no of a    *)
(* row is its index (AUTOINCREMENT, rows of st_patches are never deleted).  *)
(***************************************************************************)
EmptyStore ==
    [st_authors |-> <<>>, st_patches |-> <<>>, st_stash |-> <<>>, st_rel |-> <<>>]

\* (SELECT seq_no FROM st_patches WHERE hash = ?)
seq_no_of(s, id) ==
    IF \E i \in DOMAIN s.st_patches : s.st_patches[i].hash = id
    THEN CHOOSE i \in DOMAIN s.st_patches : s.st_patches[i].hash = id
    ELSE NULL

\* SqliteStore::is_integrated
is_integrated(s, id) == \E i \in DOMAIN s.st_patches : s.st_patches[i].hash = id

\* a contains that looks in st_patches only
contains_integrated_only(s, id) ==
    \E i \in DOMAIN s.st_patches : s.st_patches[i].hash = id

\* SqliteStore::contains
contains(s, id) ==
    \/ \E i \in DOMAIN s.st_patches : s.st_patches[i].hash = id
    \/ \E i \in DOMAIN s.st_stash : s.st_stash[i].id = id

\* SqliteStore::heads:
\* SELECT hash FROM st_patches WHERE seq_no NOT IN (SELECT child FROM st_rel)
\* over the first n rows of st_patches, in rowid order
RECURSIVE heads_rows(_, _)
heads_rows(s, n) ==
    IF n = 0 THEN <<>>
    ELSE IF \E k \in DOMAIN s.st_rel : s.st_rel[k].child = n
         THEN heads_rows(s, n - 1)
         ELSE Append(heads_rows(s, n - 1), s.st_patches[n].hash)

store_heads(s) == heads_rows(s, Len(s.st_patches))

\* the INSERT INTO st_rel statements of SqliteStore::commit, one per parent, each
\* committed on its own; PRIMARY KEY (child, parent) rejects a repeated pair, and
\* a NULL parent is never equal to another
RECURSIVE commit_rel(_, _, _)
commit_rel(s, deps, child) ==
    IF deps = <<>> THEN [ok |-> TRUE, s |-> s]
    ELSE LET parent == seq_no_of(s, Head(deps))
         IN  IF /\ parent # NULL
                /\ \E k \in DOMAIN s.st_rel :
                       s.st_rel[k] = [child |-> child, parent |-> parent]
             THEN [ok |-> FALSE, s |-> s]
             ELSE commit_rel(
                      [s EXCEPT !.st_rel =
                           Append(@, [child |-> child, parent |-> parent])],
                      Tail(deps), child)

\* SqliteStore::commit: the author is interned, then the row of st_patches is
\* inserted (hash is UNIQUE), then the rows of st_rel; no transaction spans them
store_commit(s, patch) ==
    LET s1 == IF SeqContains(s.st_authors, patch.author) THEN s
              ELSE [s EXCEPT !.st_authors = Append(@, patch.author)]
    IN  IF \E i \in DOMAIN s1.st_patches : s1.st_patches[i].hash = patch.id
        THEN [ok |-> FALSE, s |-> s1]
        ELSE LET s2 == [s1 EXCEPT !.st_patches =
                            Append(@, [hash   |-> patch.id,
                                       author |-> patch.author,
                                       sign   |-> patch.sign,
                                       data   |-> patch.data])]
             IN  commit_rel(s2, patch.deps, Len(s2.st_patches))

\* a stash that reports success and stores nothing
store_stash_dropped(s, patch) == [ok |-> TRUE, s |-> s]

\* SqliteStore::stash: hash is UNIQUE in st_stash
store_stash(s, patch) ==
    IF \E i \in DOMAIN s.st_stash : s.st_stash[i].id = patch.id
    THEN [ok |-> FALSE, s |-> s]
    ELSE [ok |-> TRUE, s |-> [s EXCEPT !.st_stash = Append(@, patch)]]

\* SqliteStore::unstash
store_unstash(s) ==
    [patches |-> s.st_stash, s |-> [s EXCEPT !.st_stash = <<>>]]

\* the deps_stmt of SqliteStore::patches: the hashes of the parents that st_rel
\* joins to the child row, read through the (child, parent) index, so in the
\* order of the parents' seq_no; a NULL parent joins to no row
RECURSIVE parents_of(_, _, _)
parents_of(s, child, n) ==
    IF n = 0 THEN <<>>
    ELSE IF \E k \in DOMAIN s.st_rel :
                s.st_rel[k] = [child |-> child, parent |-> n]
         THEN Append(parents_of(s, child, n - 1), s.st_patches[n].hash)
         ELSE parents_of(s, child, n - 1)

\* SqliteStore::patches
RECURSIVE store_patches(_, _)
store_patches(s, ids) ==
    IF ids = <<>> THEN <<>>
    ELSE LET i == seq_no_of(s, Head(ids))
         IN  IF i = NULL THEN store_patches(s, Tail(ids))
             ELSE <<[id     |-> s.st_patches[i].hash,
                     deps   |-> parents_of(s, i, Len(s.st_patches)),
                     author |-> s.st_patches[i].author,
                     sign   |-> s.st_patches[i].sign,
                     data   |-> s.st_patches[i].data]>>
                  \o store_patches(s, Tail(ids))

(***************************************************************************)
(* peer.rs.  A peer is its signing key (the peer's number), its store and    *)
(* its cached heads.  A call is an operator from the peer's state to the    *)
(* state it leaves, the value it returns and the store calls it made.       *)
(***************************************************************************)
Event(call, id, ok) == [call |-> call, id |-> id, ok |-> ok]

\* Peer::new
Peer_new(s) == [s |-> s, heads |-> store_heads(s)]

\* Peer::commit
Peer_commit(key, pr, data) ==
    LET patch == Patch_new(key, pr.heads, data)
        r     == store_commit(pr.s, patch)
    IN  IF r.ok
        THEN [s |-> r.s, heads |-> <<patch.id>>, res |-> "Ok", patch |-> patch]
        ELSE [s |-> r.s, heads |-> pr.heads, res |-> "Sqlite", patch |-> patch]

\* a loop over the deps that checks none of them
integrate_deps_unchecked(c, patch, deps) == c

\* Peer::integrate, lines 59-67: the loop over the deps of one patch
RECURSIVE integrate_deps(_, _, _)
integrate_deps(c, patch, deps) ==
    IF deps = <<>> THEN c
    ELSE IF is_integrated(c.s, Head(deps))
         THEN integrate_deps(c, patch, Tail(deps))
         ELSE LET r == store_stash(c.s, patch)
              IN  IF ~ r.ok
                  THEN [c EXCEPT !.res = "Sqlite",
                                 !.log = Append(@, Event("stash", patch.id, FALSE))]
                  ELSE integrate_deps(
                           [c EXCEPT !.s = r.s,
                                     !.missing = IF SeqContains(@, Head(deps))
                                                 THEN @ ELSE Append(@, Head(deps)),
                                     !.stashed = TRUE,
                                     !.log = Append(@, Event("stash", patch.id, TRUE))],
                           patch, Tail(deps))

\* a loop body that also sets changed for a patch it skips
integrate_patch_skip_changes(c, patch) ==
    IF ~ verify(patch)
    THEN [c EXCEPT !.res = "VerificationFailed",
                   !.log = Append(@, Event("verify", patch.id, FALSE))]
    ELSE IF contains(c.s, patch.id)
         THEN [c EXCEPT !.changed = TRUE]
         ELSE LET d == integrate_deps([c EXCEPT !.stashed = FALSE], patch, patch.deps)
              IN  IF d.res # "Ok" \/ d.stashed THEN d
                  ELSE LET r == store_commit(d.s, patch)
                       IN  IF r.ok
                           THEN [d EXCEPT !.s = r.s, !.changed = TRUE,
                                          !.log = Append(@, Event("commit", patch.id, TRUE))]
                           ELSE [d EXCEPT !.s = r.s, !.res = "Sqlite",
                                          !.log = Append(@, Event("commit", patch.id, FALSE))]

\* Peer::integrate, lines 56-73: the body of the loop over the batch
integrate_patch(c, patch) ==
    IF ~ verify(patch)
    THEN [c EXCEPT !.res = "VerificationFailed",
                   !.log = Append(@, Event("verify", patch.id, FALSE))]
    ELSE IF contains(c.s, patch.id)
         THEN c
         ELSE LET d == integrate_deps([c EXCEPT !.stashed = FALSE], patch, patch.deps)
              IN  IF d.res # "Ok" \/ d.stashed THEN d
                  ELSE LET r == store_commit(d.s, patch)
                       IN  IF r.ok
                           THEN [d EXCEPT !.s = r.s, !.changed = TRUE,
                                          !.log = Append(@, Event("commit", patch.id, TRUE))]
                           ELSE [d EXCEPT !.s = r.s, !.res = "Sqlite",
                                          !.log = Append(@, Event("commit", patch.id, FALSE))]

\* Peer::integrate, line 55: for patch in patches, left by the first error
RECURSIVE integrate_batch(_, _)
integrate_batch(c, patches) ==
    IF patches = <<>> \/ c.res # "Ok" THEN c
    ELSE integrate_batch(integrate_patch(c, Head(patches)), Tail(patches))

\* Peer::integrate, lines 54-83: the outer loop
RECURSIVE integrate_loop(_, _)
integrate_loop(c, patches) ==
    LET d == integrate_batch([c EXCEPT !.passes = @ + 1], patches)
    IN  IF d.res # "Ok" THEN d
        ELSE IF d.changed
             THEN LET u == store_unstash(d.s)
                  IN  integrate_loop(
                          [d EXCEPT !.changed = FALSE,
                                    !.heads = store_heads(d.s),
                                    !.s = u.s],
                          u.patches)
             ELSE d

\* Peer::integrate
Peer_integrate(pr, patches) ==
    integrate_loop([s |-> pr.s, heads |-> pr.heads, res |-> "Ok",
                    missing |-> <<>>, changed |-> FALSE, stashed |-> FALSE,
                    passes |-> 0, log |-> <<>>],
                   patches)

\* Peer::missing
RECURSIVE Peer_missing(_, _)
Peer_missing(pr, ids) ==
    IF ids = <<>> THEN <<>>
    ELSE IF contains(pr.s, Head(ids)) THEN Peer_missing(pr, Tail(ids))
         ELSE <<Head(ids)>> \o Peer_missing(pr, Tail(ids))

\* Peer::patches
Peer_patches(pr, ids) == store_patches(pr.s, ids)

(***************************************************************************)
(* The patches the environment delivers: the graph of test::init_patches    *)
(* (A; B and C on A; E on B and C) by an author that is not a peer, and a   *)
(* copy of B whose signature was made with another key (same ID as B).      *)
(***************************************************************************)
PatchA == Patch_new(FKey, <<>>, "a")
PatchB == Patch_new(FKey, <<PatchA.id>>, "b")
PatchC == Patch_new(FKey, <<PatchA.id>>, "c")
PatchE == Patch_new(FKey, <<PatchB.id, PatchC.id>>, "e")
Tampered == [PatchB EXCEPT !.sign = sign(L, "b")]
\* a patch Patch::new builds from deps that repeat an ID non-adjacently
PatchX == Patch_new(FKey, <<PatchA.id, PatchB.id, PatchA.id>>, "x")

Pool == {PatchA, PatchB, PatchC, PatchE, Tampered}

Batches == UNION {[1..k -> Pool] : k \in 0..MaxBatch}

(***************************************************************************)
(* State: store[p] and heads[p] are the fields of peer p; last is the call  *)
(* that was made last: the peer, the result (res, and ret: the missing list *)
(* of integrate, the ID of the patch of commit) and, in log, the verify     *)
(* that failed and the store.stash and store.commit calls it made, in       *)
(* order; phase is the stage of a scenario (two peers synchronising, the    *)
(* driver's rounds, the functions of patch.rs applied to an input).         *)
(***************************************************************************)
PeerOf(p) == [s |-> store[p], heads |-> heads[p]]

Init ==
    /\ store = [p \in Peers |-> EmptyStore]
    /\ heads = [p \in Peers |-> Peer_new(EmptyStore).heads]
    /\ last = [op |-> "new", peer |-> L, res |-> "Ok", ret |-> <<>>, log |-> <<>>]
    /\ phase = "free"

\* Peer::new on the store the peer holds (the store is reopened)
PeerNew(p) ==
    /\ store' = store
    /\ heads' = [heads EXCEPT ![p] = Peer_new(store[p]).heads]
    /\ last' = [op |-> "new", peer |-> p, res |-> "Ok", ret |-> <<>>, log |-> <<>>]

\* Peer::commit
Commit(p, data) ==
    /\ Len(store[p].st_patches) < MaxPatches
    /\ LET r == Peer_commit(p, PeerOf(p), data)
       IN  /\ store' = [store EXCEPT ![p] = r.s]
           /\ heads' = [heads EXCEPT ![p] = r.heads]
           /\ last' = [op |-> "commit", peer |-> p, res |-> r.res,
                       ret |-> <<r.patch.id>>, log |-> <<>>]

\* Peer::integrate
Integrate(p, batch) ==
    LET r == Peer_integrate(PeerOf(p), batch)
    IN  /\ store' = [store EXCEPT ![p] = r.s]
        /\ heads' = [heads EXCEPT ![p] = r.heads]
        /\ last' = [op |-> "integrate", peer |-> p, res |-> r.res,
                    ret |-> r.missing, log |-> r.log]

\* one peer, any sequence of Peer::new, Peer::commit and Peer::integrate
Next ==
    \/ PeerNew(L) /\ UNCHANGED phase
    \/ \E data \in Payloads : Commit(L, data) /\ UNCHANGED phase
    \/ \E batch \in Batches : Integrate(L, batch) /\ UNCHANGED phase

Spec == Init /\ [][Next]_vars

(***************************************************************************)
(* The vocabulary of the specification, for peer p.                         *)
(***************************************************************************)
\* I: the integrated set, as IDs
I(p) == {store[p].st_patches[i].hash : i \in DOMAIN store[p].st_patches}

\* S: the stash, as IDs
S(p) == {store[p].st_stash[i].id : i \in DOMAIN store[p].st_stash}

\* the deps of the patch with this ID: the parents its ID was derived from
parents(id) == Range(id[2])

\* H(I): the patches of I that are not a dep of any patch of I
H(p) == {id \in I(p) : ~ \E q \in I(p) : id \in parents(q)}

\* the patches of the environment whose signature verifies
Valid == {q \in Pool : verify(q)}

\* the state in which Peer::integrate starts on peer p
Start(p) ==
    [s |-> store[p], heads |-> heads[p], res |-> "Ok", missing |-> <<>>,
     changed |-> FALSE, stashed |-> FALSE, passes |-> 0, log |-> <<>>]

(***************************************************************************)
(* C1  Closure: in every state reachable through Peer::new, Peer::commit    *)
(* and Peer::integrate, failed calls included, every patch of I has all of  *)
(* its deps in I (and every parent edge of st_rel names a row of            *)
(* st_patches); a patch is never committed while a dep is not integrated.   *)
(***************************************************************************)
ClosedStore(s) ==
    /\ \A i \in DOMAIN s.st_patches :
           \A d \in parents(s.st_patches[i].hash) :
               \E j \in DOMAIN s.st_patches : s.st_patches[j].hash = d
    /\ \A k \in DOMAIN s.st_rel :
           /\ s.st_rel[k].parent \in DOMAIN s.st_patches
           /\ s.st_rel[k].child \in DOMAIN s.st_patches

Closure ==
    /\ ClosedStore(store[L])
    \* also after a call that fails inside store.commit, on the repeated dep of X
    /\ ClosedStore(Peer_integrate(PeerOf(L), <<PatchX>>).s)

\* B was integrated alone, its parent A absent: B is stashed, not committed,
\* and A is reported missing
ClosureWitness ==
    /\ last.op = "integrate" /\ last.res = "Ok"
    /\ last.ret = <<PatchA.id>>
    /\ PatchB.id \in S(L) /\ PatchB.id \notin I(L) /\ PatchA.id \notin I(L)

(***************************************************************************)
(* C2  Head correctness: after Peer::new and after every Peer::integrate    *)
(* that returns Ok, the cached heads, as a set, are H(I).                   *)
(***************************************************************************)
HeadCorrectness ==
    (last.op \in {"new", "integrate"} /\ last.res = "Ok")
        => Range(heads[L]) = H(L)

(***************************************************************************)
(* C3  ObjectStore.heads() returns exactly H(I): a patch is returned iff no *)
(* integrated patch names it as a parent.                                   *)
(***************************************************************************)
StoreHeadsIsH == Range(store_heads(store[L])) = H(L)

(***************************************************************************)
(* C4  After every Peer::commit that returns Ok the new patch's deps were   *)
(* childless patches of I, I grew by exactly the new patch, and the new     *)
(* patch is the sole head: H(I) = {patch.id} = heads.                       *)
(***************************************************************************)
CommitSoleHead ==
    (last.op = "commit" /\ last.res = "Ok")
        => /\ H(L) = {last.ret[1]}
           /\ Range(heads[L]) = {last.ret[1]}

(***************************************************************************)
(* C5  Order-independence: every permutation of a dep-closed set P of       *)
(* validly signed patches, integrated as one batch by the same starting     *)
(* peer, succeeds and yields the same I (all of P integrated, stash empty)  *)
(* and the same heads.                                                      *)
(***************************************************************************)
ClosedSets ==
    {P \in SUBSET Valid : \A q \in P : parents(q.id) \subseteq {r.id : r \in P}}

Perms(P) ==
    {f \in [1..Cardinality(P) -> P] : \A i, j \in DOMAIN f : f[i] = f[j] => i = j}

IdsOf(rows) == {rows[i].hash : i \in DOMAIN rows}

OrderIndependence ==
    store[L].st_stash = <<>> =>
        \A P \in ClosedSets : \A f, g \in Perms(P) :
            LET rf == Peer_integrate(PeerOf(L), f)
                rg == Peer_integrate(PeerOf(L), g)
            IN  /\ rf.res = "Ok"
                /\ {q.id : q \in P} \subseteq IdsOf(rf.s.st_patches)
                /\ rf.s.st_stash = <<>>
                /\ IdsOf(rf.s.st_patches) = IdsOf(rg.s.st_patches)
                /\ Range(rf.heads) = Range(rg.heads)

(***************************************************************************)
(* C8  Unknown ancestors are not an error: for every batch of validly       *)
(* signed patches Peer::integrate returns Ok, store.stash is never called   *)
(* for an ID already in the stash, and each unknown patch with k >= 1 deps  *)
(* outside I is stashed exactly once, is not committed, and has all of its  *)
(* unmet deps in the returned missing list.  A call whose log holds no      *)
(* failed verify processed only validly signed patches.                     *)
(***************************************************************************)
UnknownAncestorsOk ==
    last.op = "integrate" =>
        \* a call that met no tampered patch returned Ok
        /\ (\A k \in DOMAIN last.log : last.log[k].call # "verify") => last.res = "Ok"
        \* store.stash was not called for an ID that was in the stash
        /\ \A k \in DOMAIN last.log : last.log[k].call = "stash" => last.log[k].ok
        \* what was stashed is in the stash once, not in I, its unmet deps reported
        /\ last.res = "Ok" =>
               \A k \in DOMAIN last.log :
                   (last.log[k].call = "stash" /\ last.log[k].id \notin I(L)) =>
                       /\ Cardinality({i \in DOMAIN store[L].st_stash :
                              store[L].st_stash[i].id = last.log[k].id}) = 1
                       /\ (parents(last.log[k].id) \ I(L)) \subseteq Range(last.ret)

(***************************************************************************)
(* C9  Tamper rejection: a patch whose signature does not verify is never   *)
(* inserted into I or S; Peer::integrate returns the verification error as  *)
(* soon as it reaches such a patch, also when the ID is already known; what *)
(* was committed or stashed earlier in the call stays, and no patch after   *)
(* it is processed.                                                         *)
(***************************************************************************)
TamperRejection ==
    /\ \A i \in DOMAIN store[L].st_patches :
           LET row == store[L].st_patches[i]
           IN  row.sign = [signer |-> row.author, msg |-> row.data]
    /\ \A i \in DOMAIN store[L].st_stash :
           LET q == store[L].st_stash[i]
           IN  q.sign = [signer |-> q.author, msg |-> q.data]
    /\ \A t \in Pool :
           t.sign # [signer |-> t.author, msg |-> t.data] =>
               \A q \in Pool :
                   LET first  == Peer_integrate(PeerOf(L), <<t, q>>)
                       before == integrate_patch(Start(L), q)
                       second == Peer_integrate(PeerOf(L), <<q, t>>)
                   IN  /\ first.res = "VerificationFailed"
                       /\ first.s = store[L] /\ first.heads = heads[L]
                       /\ second.res # "Ok"
                       /\ before.res = "Ok" => second.res = "VerificationFailed"
                       /\ second.s = before.s /\ second.heads = heads[L]
    /\ (last.op = "integrate" /\ last.res = "VerificationFailed") =>
           /\ last.log # <<>>
           /\ last.log[Len(last.log)].call = "verify"
           /\ \A k \in 1..(Len(last.log) - 1) :
                  /\ last.log[k].ok
                  /\ last.log[k].call = "commit" => last.log[k].id \in I(L)
                  /\ last.log[k].call = "stash" => last.log[k].id \in S(L)

\* C was committed, then the tampered copy of B, whose ID is integrated, ended
\* the call
TamperWitness ==
    /\ last.op = "integrate" /\ last.res = "VerificationFailed"
    /\ last.log = <<Event("commit", PatchC.id, TRUE),
                    Event("verify", Tampered.id, FALSE)>>
    /\ Tampered.id \in I(L) /\ PatchC.id \in I(L)

(***************************************************************************)
(* C10  Idempotence: for every patch p and every starting state,            *)
(* integrate([p, p, p]) returns the same value and leaves the same store    *)
(* and cached heads as integrate([p]); delivering again a patch whose ID is *)
(* in I or S changes neither I nor S.                                       *)
(***************************************************************************)
\* the patches that can be delivered to peer p: those of the environment, the
\* patch with a repeated dep, those in its stash, and those its own store hands out
Deliverable(p) ==
    Pool \cup {PatchX} \cup Range(store[p].st_stash)
         \cup Range(store_patches(store[p],
                  [i \in DOMAIN store[p].st_patches |-> store[p].st_patches[i].hash]))

Idempotence ==
    \A q \in Deliverable(L) :
        LET r1 == Peer_integrate(PeerOf(L), <<q>>)
            r3 == Peer_integrate(PeerOf(L), <<q, q, q>>)
        IN  /\ r3.res = r1.res /\ r3.missing = r1.missing
            /\ r3.s = r1.s /\ r3.heads = r1.heads
            /\ contains(store[L], q.id) =>
                   /\ r1.s.st_patches = store[L].st_patches
                   /\ r1.s.st_stash = store[L].st_stash

\* a peer that integrated A and C is delivered E three times: E is stashed once,
\* B is reported missing once, and the call returns Ok
IdempotenceWitness ==
    /\ last.op = "integrate"
    /\ I(L) = {PatchA.id, PatchC.id} /\ S(L) = {}
    /\ LET r3 == Peer_integrate(PeerOf(L), <<PatchE, PatchE, PatchE>>)
       IN  /\ r3.res = "Ok" /\ r3.missing = <<PatchB.id>>
           /\ r3.s.st_stash = <<PatchE>>

(***************************************************************************)
(* The reconciliation driver, test::run_reconcile, and two peers.           *)
(***************************************************************************)
\* run_reconcile, lines 137-140: the loop; unwrap panics on an error of integrate
RECURSIVE reconcile_loop(_, _, _)
reconcile_loop(src, dst, missing) ==
    IF missing = <<>> THEN [s |-> dst.s, heads |-> dst.heads, res |-> "Ok"]
    ELSE LET r == Peer_integrate(dst, Peer_patches(src, missing))
         IN  IF r.res # "Ok"
             THEN [s |-> r.s, heads |-> r.heads, res |-> "Panic"]
             ELSE reconcile_loop(src, [s |-> r.s, heads |-> r.heads], r.missing)

\* run_reconcile
run_reconcile(src, dst) == reconcile_loop(src, dst, Peer_missing(dst, src.heads))

\* the patches the environment delivers in the two-peer scenario
SyncBatches == UNION {[1..k -> Valid] : k \in 0..MaxBatch}

InitSync ==
    /\ store = [p \in Peers |-> EmptyStore]
    /\ heads = [p \in Peers |-> Peer_new(EmptyStore).heads]
    /\ last = [op |-> "new", peer |-> L, res |-> "Ok", ret |-> <<>>, log |-> <<>>]
    /\ phase = [stage |-> "share", common |-> TRUE, wrote |-> {}, first |-> L]

\* before the peers write, either of them integrates what the environment delivers
SyncIntegrate(p, batch) ==
    /\ phase.stage = "share"
    /\ Integrate(p, batch)
    /\ UNCHANGED phase

\* a peer commits a local patch; common records whether the peers held the same
\* integrated set and stash when the sharing stage ended, wrote the peers that
\* committed since
SyncCommit(p, data) ==
    /\ phase.stage \in {"share", "write"}
    /\ Commit(p, data)
    /\ phase' = [phase EXCEPT !.stage = "write",
                              !.wrote = @ \cup {p},
                              !.common = IF phase.stage = "share"
                                         THEN I(L) = I(R) /\ S(L) = S(R)
                                         ELSE @]

\* the driver runs once, dst pulling from src; then once in the other direction
Reconcile(src, dst) ==
    /\ src # dst
    /\ \/ phase.stage \in {"share", "write"}
       \/ phase.stage = "half" /\ phase.first = dst
    /\ LET r == run_reconcile(PeerOf(src), PeerOf(dst))
       IN  /\ store' = [store EXCEPT ![dst] = r.s]
           /\ heads' = [heads EXCEPT ![dst] = r.heads]
           /\ last' = [op |-> "reconcile", peer |-> dst, res |-> r.res,
                       ret |-> <<>>, log |-> <<>>]
           /\ phase' = [phase EXCEPT
                           !.stage = IF r.res = "Panic" THEN "panic"
                                     ELSE IF phase.stage = "half" THEN "full"
                                     ELSE "half",
                           !.common = IF phase.stage = "share"
                                      THEN I(L) = I(R) /\ S(L) = S(R)
                                      ELSE @,
                           !.first = IF phase.stage = "half" THEN @ ELSE src]

NextSync ==
    \/ \E p \in Peers : \E batch \in SyncBatches : SyncIntegrate(p, batch)
    \/ \E p \in Peers : \E data \in Payloads : SyncCommit(p, data)
    \/ \E src \in Peers : \E dst \in Peers : Reconcile(src, dst)

SpecSync == InitSync /\ [][NextSync]_vars

\* the patches reachable from a set of IDs through deps
RECURSIVE Ancestors(_)
Ancestors(ids) ==
    LET up == ids \cup UNION {parents(id) : id \in ids}
    IN  IF up = ids THEN ids ELSE Ancestors(up)

(***************************************************************************)
(* C6  Convergence: two peers that share an integrated history and then     *)
(* each commit local patches, after the driver ran once in each direction   *)
(* with no write in between, hold the same integrated set and the same      *)
(* heads.                                                                   *)
(***************************************************************************)
Convergence ==
    (phase.stage = "full" /\ phase.common /\ phase.wrote = Peers) =>
        /\ I(L) = I(R)
        /\ Range(heads[L]) = Range(heads[R])

(***************************************************************************)
(* C7  One-directional completeness: when the driver's loop ends with need  *)
(* empty, every patch of the remote's true head set H(I) and every ancestor *)
(* of it is in the local integrated set, whatever the local peer held       *)
(* before, in its stash too.                                                *)
(***************************************************************************)
ReconcileComplete ==
    (last.op = "reconcile" /\ last.res = "Ok") =>
        \A src \in Peers \ {last.peer} : Ancestors(H(src)) \subseteq I(last.peer)

(***************************************************************************)
(* One peer and an environment that also delivers what Patch::new makes of  *)
(* deps that repeat an ID (PatchX) and a patch made with the peer's own key *)
(* on PatchA, by another holder of that key.                                *)
(***************************************************************************)
PatchOwn == Patch_new(L, <<PatchA.id>>, "g")

OpenPool == {PatchA, PatchB, PatchE, PatchX, PatchOwn}

OpenBatches == UNION {[1..k -> OpenPool] : k \in 0..MaxBatch}

NextOpen ==
    \/ PeerNew(L) /\ UNCHANGED phase
    \/ \E data \in Payloads : Commit(L, data) /\ UNCHANGED phase
    \/ \E batch \in OpenBatches : Integrate(L, batch) /\ UNCHANGED phase

SpecOpen == Init /\ [][NextOpen]_vars

(***************************************************************************)
(* C11  Identity invariant: in every state reached through Peer::commit     *)
(* and Peer::integrate, failed calls included, no patch ID occurs twice in  *)
(* I, none occurs twice in the stash, and no patch ID is in both.           *)
(***************************************************************************)
Identity ==
    /\ \A i, j \in DOMAIN store[L].st_patches :
           store[L].st_patches[i].hash = store[L].st_patches[j].hash => i = j
    /\ \A i, j \in DOMAIN store[L].st_stash :
           store[L].st_stash[i].id = store[L].st_stash[j].id => i = j
    /\ I(L) \cap S(L) = {}

(***************************************************************************)
(* C12  Stash invariant: after every Peer::commit or Peer::integrate that   *)
(* returns Ok, whatever calls preceded it, every patch in the stash has at  *)
(* least one dep that is not in I.                                          *)
(***************************************************************************)
StashInvariant ==
    (last.op \in {"commit", "integrate"} /\ last.res = "Ok") =>
        \A i \in DOMAIN store[L].st_stash :
            \E k \in DOMAIN store[L].st_stash[i].deps :
                store[L].st_stash[i].deps[k] \notin I(L)

\* the IDs of the rows of st_stash
StashIds(rows) == {rows[i].id : i \in DOMAIN rows}

(***************************************************************************)
(* C13  At-least-once progress on failure: when Peer::integrate returns an  *)
(* error, every patch that was in I before the call or was committed        *)
(* earlier in the call is in I, and every patch that was in the stash       *)
(* before the call or was stashed earlier in the call is in I or in the     *)
(* stash, the patches drained from the stash for re-evaluation included.    *)
(***************************************************************************)
ProgressOnFailure ==
    [][(last'.op = "integrate" /\ last'.res # "Ok") =>
          LET I1 == IdsOf(store'[L].st_patches)
              S1 == StashIds(store'[L].st_stash)
          IN  /\ I(L) \subseteq I1
              /\ S(L) \subseteq I1 \cup S1
              /\ \A k \in DOMAIN last'.log :
                     /\ (last'.log[k].call = "commit" /\ last'.log[k].ok)
                            => last'.log[k].id \in I1
                     /\ (last'.log[k].call = "stash" /\ last'.log[k].ok)
                            => last'.log[k].id \in I1 \cup S1]_vars

(***************************************************************************)
(* The store called directly, as the ObjectStore trait allows: any patch    *)
(* of the open environment is handed to SqliteStore::commit, in any order.  *)
(***************************************************************************)
StoreCommit(p, patch) ==
    /\ Len(store[p].st_patches) < MaxPatches
    /\ LET r == store_commit(store[p], patch)
       IN  /\ store' = [store EXCEPT ![p] = r.s]
           /\ last' = [op |-> "store.commit", peer |-> p,
                       res |-> IF r.ok THEN "Ok" ELSE "Sqlite",
                       ret |-> <<patch.id>>, log |-> <<>>]
    /\ UNCHANGED <<heads, phase>>

NextStore == \E patch \in OpenPool : StoreCommit(L, patch)

SpecStore == Init /\ [][NextStore]_vars

\* the IDs that the rows of st_rel give as parents of row i of st_patches
EdgeParents(s, i) ==
    {s.st_patches[e.parent].hash :
        e \in {x \in Range(s.st_rel) : x.child = i /\ x.parent # NULL}}

(***************************************************************************)
(* C14  ObjectStore.commit is all-or-nothing: when commit(patch) returns an *)
(* error, st_patches and st_rel are as they were before the call, and no    *)
(* row of st_patches is ever left without an edge to each of its parents.   *)
(***************************************************************************)
CommitAllOrNothing ==
    [][last'.op = "store.commit" =>
          /\ last'.res # "Ok" =>
                 /\ store'[L].st_patches = store[L].st_patches
                 /\ store'[L].st_rel = store[L].st_rel
          /\ \A i \in DOMAIN store'[L].st_patches :
                 parents(store'[L].st_patches[i].hash)
                     \subseteq EdgeParents(store'[L], i)]_vars

(***************************************************************************)
(* The reconciliation driver (test::run_reconcile) one round at a time.     *)
(* While phase.stage is "setup" the remote peer L commits and integrates    *)
(* and the local peer R integrates; then the driver starts from src = L to  *)
(* dst = R: need is dst.missing(src.heads()), and each round integrates     *)
(* src.patches(need) into dst and takes the returned missing list as the    *)
(* next need.  unwrap() of an error ends the driver ("panic"); an empty     *)
(* need ends the loop ("done").  prev is the need that produced the batch   *)
(* of the round made last.                                                  *)
(***************************************************************************)
DriverBatches == {<<q>> : q \in Valid}

InitDriver ==
    /\ store = [p \in Peers |-> EmptyStore]
    /\ heads = [p \in Peers |-> Peer_new(EmptyStore).heads]
    /\ last = [op |-> "new", peer |-> L, res |-> "Ok", ret |-> <<>>, log |-> <<>>]
    /\ phase = [stage |-> "setup", src |-> L, dst |-> R, need |-> <<>>, prev |-> <<>>]

DriverCommit(data) ==
    /\ phase.stage = "setup"
    /\ Commit(L, data)
    /\ UNCHANGED phase

DriverIntegrate(p, batch) ==
    /\ phase.stage = "setup"
    /\ Integrate(p, batch)
    /\ UNCHANGED phase

\* run_reconcile, lines 135-136
DriverStart(src, dst) ==
    /\ phase.stage = "setup"
    /\ LET need == Peer_missing(PeerOf(dst), heads[src])
       IN  /\ phase' = [stage |-> IF need = <<>> THEN "done" ELSE "run",
                        src |-> src, dst |-> dst, need |-> need, prev |-> <<>>]
           /\ last' = [op |-> "start", peer |-> dst, res |-> "Ok",
                       ret |-> need, log |-> <<>>]
    /\ UNCHANGED <<store, heads>>

\* run_reconcile, lines 137-140: one iteration of the while loop
DriverRound ==
    /\ phase.stage = "run"
    /\ LET r == Peer_integrate(PeerOf(phase.dst),
                               Peer_patches(PeerOf(phase.src), phase.need))
       IN  /\ store' = [store EXCEPT ![phase.dst] = r.s]
           /\ heads' = [heads EXCEPT ![phase.dst] = r.heads]
           /\ last' = [op |-> "round", peer |-> phase.dst, res |-> r.res,
                       ret |-> r.missing, log |-> r.log]
           /\ phase' = [phase EXCEPT
                          !.stage = IF r.res # "Ok" THEN "panic"
                                    ELSE IF r.missing = <<>> THEN "done" ELSE "run",
                          !.need = IF r.res # "Ok" THEN <<>> ELSE r.missing,
                          !.prev = phase.need]

NextDriver ==
    \/ \E data \in Payloads : DriverCommit(data)
    \/ \E p \in Peers : \E batch \in DriverBatches : DriverIntegrate(p, batch)
    \/ DriverStart(L, R)
    \/ DriverRound

SpecDriver == InitDriver /\ [][NextDriver]_vars

(***************************************************************************)
(* C15  Missing monotone, as stated: the missing list returned by each      *)
(* integrate of the driver has fewer IDs than the need that produced its    *)
(* batch (the missing list of the round before), or the driver halts.       *)
(***************************************************************************)
MissingMonotone ==
    [][(last'.op = "round" /\ last'.res = "Ok") =>
          Cardinality(Range(last'.ret)) < Cardinality(Range(phase.need))]_vars

(***************************************************************************)
(* C15, amended: a round of the driver that returns a non-empty missing     *)
(* list has added at least one patch to what the local peer holds (I and    *)
(* stash), and removed none; the missing list itself need not shrink.       *)
(***************************************************************************)
MissingProgress ==
    [][(last'.op = "round" /\ last'.res = "Ok" /\ last'.ret # <<>>) =>
          LET held  == I(phase.dst) \cup S(phase.dst)
              held1 == IdsOf(store'[phase.dst].st_patches)
                           \cup StashIds(store'[phase.dst].st_stash)
          IN  held \subseteq held1 /\ held # held1]_vars

\* a round on a chain: one ID was needed, one (its parent) is missing
MissingProgressWitness ==
    /\ last.op = "round" /\ last.res = "Ok"
    /\ phase.stage = "run"
    /\ Len(phase.prev) = 1 /\ Len(last.ret) = 1
    /\ last.ret[1] \in parents(phase.prev[1])
    /\ phase.prev[1] \in S(phase.dst)

(***************************************************************************)
(* patch.rs, the rest of Deps and the framing of a Patch.  A stream is a    *)
(* sequence of units: a byte of a varint or of the payload is a number, and *)
(* each 32-byte field (a signature half, the author key, a parent ID) is    *)
(* one unit.                                                                *)
(***************************************************************************)
\* longest deps sequence and longest payload the inputs are drawn from
MaxDeps == 3

MaxData == 2

\* Deps::new
Deps_new(v) == v

\* Deps::insert
Deps_insert(deps, value) ==
    IF SeqContains(deps, value) THEN deps ELSE Append(deps, value)

\* Deps::default() followed by one insert per element
RECURSIVE Deps_insert_all(_, _)
Deps_insert_all(deps, ids) ==
    IF ids = <<>> THEN deps
    ELSE Deps_insert_all(Deps_insert(deps, Head(ids)), Tail(ids))

\* impl PartialEq for Deps
Deps_eq(self, other) ==
    /\ Len(self) = Len(other)
    /\ \A i \in DOMAIN other : SeqContains(self, other[i])

\* #[derive(PartialEq)] for Patch: field by field
Patch_eq(p, q) ==
    /\ p.id = q.id
    /\ Deps_eq(p.deps, q.deps)
    /\ p.author = q.author
    /\ p.sign = q.sign
    /\ p.data = q.data

\* varint_rs, write_u32_varint: seven bits a byte, low group first
RECURSIVE write_u32_varint(_)
write_u32_varint(n) ==
    IF n < 128 THEN <<n>>
    ELSE <<128 + (n % 128)>> \o write_u32_varint(n \div 128)

\* varint_rs, read_u32_varint: the value and the stream left
RECURSIVE read_u32_varint(_)
read_u32_varint(stream) ==
    IF stream = <<>> THEN [ok |-> FALSE, value |-> 0, rest |-> <<>>]
    ELSE IF Head(stream) < 128
         THEN [ok |-> TRUE, value |-> Head(stream), rest |-> Tail(stream)]
         ELSE LET r == read_u32_varint(Tail(stream))
              IN  [r EXCEPT !.value = (Head(stream) - 128) + 128 * @]

\* Signature::r_bytes, s_bytes and from_components
r_bytes(sig) == sig.signer

s_bytes(sig) == sig.msg

from_components(r, s) == [signer |-> r, msg |-> s]

\* Patch::write
Patch_write(patch) ==
    write_u32_varint(Len(patch.deps)) \o write_u32_varint(Len(patch.data))
        \o <<r_bytes(patch.sign), s_bytes(patch.sign), patch.author>>
        \o patch.deps \o patch.data

\* Patch::read: the patch, and the stream left after it
Patch_read(stream) ==
    LET n == read_u32_varint(stream)
        m == read_u32_varint(n.rest)
        deps_len == n.value
        data_len == m.value
    IN  IF ~ n.ok \/ ~ m.ok \/ Len(m.rest) < 3 + deps_len + data_len
        THEN [ok |-> FALSE, rest |-> <<>>]
        ELSE LET deps == Deps_insert_all(<<>>, SubSeq(m.rest, 4, 3 + deps_len))
                 data == SubSeq(m.rest, 4 + deps_len, 3 + deps_len + data_len)
                 author == m.rest[3]
             IN  [ok |-> TRUE,
                  patch |-> [id     |-> hash(author, deps, data),
                             deps   |-> deps,
                             author |-> author,
                             sign   |-> from_components(m.rest[1], m.rest[2]),
                             data   |-> data],
                  rest |-> SubSeq(m.rest, 4 + deps_len + data_len, Len(m.rest))]

(***************************************************************************)
(* The functions of patch.rs applied to inputs drawn from bounded sets:     *)
(* x and y are sequences of IDs; Deps are built from them by one of the     *)
(* three constructors and compared, or a Patch is built from x, written,    *)
(* and read back from a stream that may go on after the frame.              *)
(***************************************************************************)
DepIds == {PatchA.id, PatchB.id, PatchC.id}

IdSeqs == UNION {[1..k -> DepIds] : k \in 0..MaxDeps}

DataBytes == {7, 8}

Datas == UNION {[1..k -> DataBytes] : k \in 0..MaxData}

Constructors == {"from_iter", "new", "insert"}

Deps_by(how, ids) ==
    IF how = "from_iter" THEN Deps_from_iter(ids)
    ELSE IF how = "new" THEN Deps_new(ids)
    ELSE Deps_insert_all(<<>>, ids)

InitPatch ==
    /\ store = [p \in Peers |-> EmptyStore]
    /\ heads = [p \in Peers |-> <<>>]
    /\ last = [op |-> "new", peer |-> L, res |-> "Ok", ret |-> <<>>, log |-> <<>>]
    /\ \E x \in IdSeqs : \E y \in IdSeqs :
           phase = [stage |-> "input", x |-> x, y |-> y]

DepsMake(cx, cy) ==
    /\ phase.stage = "input"
    /\ phase' = [stage |-> "deps", x |-> phase.x, cx |-> cx, cy |-> cy,
                 dx |-> Deps_by(cx, phase.x), dy |-> Deps_by(cy, phase.y)]
    /\ UNCHANGED <<store, heads, last>>

DepsEq ==
    /\ phase.stage = "deps"
    /\ phase' = [stage |-> "eq", dx |-> phase.dx, dy |-> phase.dy,
                 xy |-> Deps_eq(phase.dx, phase.dy),
                 yx |-> Deps_eq(phase.dy, phase.dx)]
    /\ UNCHANGED <<store, heads, last>>

PatchNew(key, data) ==
    /\ phase.stage = "input"
    /\ phase' = [stage |-> "new", x |-> phase.x,
                 patch |-> Patch_new(key, phase.x, data)]
    /\ UNCHANGED <<store, heads, last>>

PatchWrite ==
    /\ phase.stage = "new"
    /\ phase' = [stage |-> "written", patch |-> phase.patch,
                 frame |-> Patch_write(phase.patch)]
    /\ UNCHANGED <<store, heads, last>>

PatchRead(tail) ==
    /\ phase.stage = "written"
    /\ phase' = [stage |-> "read", patch |-> phase.patch, tail |-> tail,
                 back |-> Patch_read(phase.frame \o tail)]
    /\ UNCHANGED <<store, heads, last>>

NextPatch ==
    \/ \E cx \in Constructors : \E cy \in Constructors : DepsMake(cx, cy)
    \/ DepsEq
    \/ \E key \in {L, FKey} : \E data \in Datas : PatchNew(key, data)
    \/ PatchWrite
    \/ \E tail \in {<<>>, <<7>>} : PatchRead(tail)

SpecPatch == InitPatch /\ [][NextPatch]_vars

(***************************************************************************)
(* C16  Round trip: for every patch p that Patch::new can produce, reading  *)
(* what p.write wrote consumes exactly those bytes and yields a patch equal *)
(* to p: the same recomputed ID, deps, author, signature and payload.       *)
(***************************************************************************)
RoundTrip ==
    phase.stage = "read" =>
        /\ phase.back.ok
        /\ phase.back.rest = phase.tail
        /\ phase.back.patch.id = phase.patch.id
        /\ Patch_eq(phase.patch, phase.back.patch)
        /\ Patch_eq(phase.back.patch, phase.patch)

\* the index of the first occurrence of id in ids
FirstAt(ids, id) ==
    CHOOSE i \in DOMAIN ids : ids[i] = id /\ \A j \in 1..(i - 1) : ids[j] # id

\* deps holds each ID of ids once, in the order of first occurrence in ids
FirstSeen(deps, ids) ==
    /\ Range(deps) = Range(ids)
    /\ \A i, j \in DOMAIN deps : deps[i] = deps[j] => i = j
    /\ \A i, j \in DOMAIN deps :
           i < j => FirstAt(ids, deps[i]) < FirstAt(ids, deps[j])

(***************************************************************************)
(* C19  Deps is duplicate-free: for every input sequence of IDs, repeats    *)
(* that are not adjacent included, the Deps that Deps::from_iter builds,    *)
(* and the deps of the patch Patch::new builds, hold each ID at most once,  *)
(* in first-seen order.                                                     *)
(***************************************************************************)
DepsDuplicateFree ==
    /\ (phase.stage = "deps" /\ phase.cx = "from_iter")
           => FirstSeen(phase.dx, phase.x)
    /\ phase.stage = "new" => FirstSeen(phase.patch.deps, phase.x)

(***************************************************************************)
(* C20  Deps equality is set equality: for all Deps x and y built through   *)
(* from_iter, new or insert, x == y exactly when they hold the same set of  *)
(* IDs, whatever the order; in particular x == y exactly when y == x.       *)
(***************************************************************************)
DepsEqIsSetEq ==
    phase.stage = "eq" =>
        /\ phase.xy <=> (Range(phase.dx) = Range(phase.dy))
        /\ phase.xy <=> phase.yx

\* the ID lists handed to patches: known, stashed and unknown IDs, with repeats
IdLists == UNION {[1..k -> {q.id : q \in OpenPool}] : k \in 0..MaxBatch}

\* the IDs of ids that are in the set ids_in, in the order of ids
RECURSIVE Keep(_, _)
Keep(ids, ids_in) ==
    IF ids = <<>> THEN <<>>
    ELSE IF Head(ids) \in ids_in THEN <<Head(ids)>> \o Keep(Tail(ids), ids_in)
         ELSE Keep(Tail(ids), ids_in)

(***************************************************************************)
(* C17  patches(ids) returns exactly the patches of I whose ID is in ids:   *)
(* unknown and only-stashed IDs are left out, each returned patch has, as a *)
(* set, the deps it was committed with (those its ID was computed from),    *)
(* and after a dep-closed batch was integrated, patches of its IDs returns  *)
(* patches equal to the ones integrated.                                    *)
(***************************************************************************)
PatchesExact ==
    /\ \A ids \in IdLists :
           LET out == Peer_patches(PeerOf(L), ids)
           IN  /\ [k \in DOMAIN out |-> out[k].id] = Keep(ids, I(L))
               /\ \A k \in DOMAIN out :
                      /\ Range(out[k].deps) = parents(out[k].id)
                      /\ out[k].author = out[k].id[1]
                      /\ out[k].data = out[k].id[3]
    /\ \A P \in ClosedSets : \A f \in Perms(P) :
           LET r   == Peer_integrate(PeerOf(L), f)
               out == store_patches(r.s, [k \in DOMAIN f |-> f[k].id])
           IN  r.res = "Ok" =>
                   /\ Len(out) = Len(f)
                   /\ \A k \in DOMAIN f :
                          Patch_eq(f[k], out[k]) /\ Patch_eq(out[k], f[k])

\* the batches the passes of integrate are counted for: none or one patch,
\* on whatever the stash holds
PassBatches == {<<>>} \cup {<<q>> : q \in Pool}

BatchIds(batch) == {batch[k].id : k \in DOMAIN batch}

(***************************************************************************)
(* C18, as stated: the number of passes of the outer loop of one            *)
(* Peer::integrate is at most the number of distinct patches in the batch   *)
(* plus the stash.                                                          *)
(***************************************************************************)
PassesBounded ==
    \A batch \in PassBatches :
        Peer_integrate(PeerOf(L), batch).passes
            <= Cardinality(BatchIds(batch) \cup S(L))

(***************************************************************************)
(* C18, amended: Peer::integrate returns for every batch and store state;   *)
(* every pass but the last committed a patch that was not in I, taken from  *)
(* the batch or the stash, so I grows by at least one patch per pass that   *)
(* is followed by another, and the number of passes is at most one more     *)
(* than the number of distinct patches in the batch plus the stash.         *)
(***************************************************************************)
IntegrateTerminates ==
    \A batch \in PassBatches :
        LET r     == Peer_integrate(PeerOf(L), batch)
            fresh == IdsOf(r.s.st_patches) \ I(L)
        IN  /\ r.res \in {"Ok", "VerificationFailed", "Sqlite"}
            /\ I(L) \subseteq IdsOf(r.s.st_patches)
            /\ fresh \subseteq BatchIds(batch) \cup S(L)
            /\ r.passes >= 1
            /\ r.passes - 1 <= Cardinality(fresh)
            /\ r.passes <= Cardinality(BatchIds(batch) \cup S(L)) + 1

\* A is in I, E and B are stashed in this order: integrate([C]) commits C, then
\* B, then E, and makes a fourth pass over an empty stash
IntegrateTerminatesWitness ==
    /\ I(L) = {PatchA.id}
    /\ [k \in DOMAIN store[L].st_stash |-> store[L].st_stash[k].id]
           = <<PatchE.id, PatchB.id>>
    /\ LET r == Peer_integrate(PeerOf(L), <<PatchC>>)
       IN  r.res = "Ok" /\ r.passes = 4 /\ r.s.st_stash = <<>>

(***************************************************************************)
(* C21  The list a successful Peer::integrate returns is what is missing at *)
(* return: no ID occurs in it twice and none of its IDs is in I when the     *)
(* call returns, so a dep integrated later in the same call is not          *)
(* reported.                                                                *)
(***************************************************************************)
MissingAtReturn ==
    (last.op = "integrate" /\ last.res = "Ok") =>
        /\ \A i, j \in DOMAIN last.ret : last.ret[i] = last.ret[j] => i = j
        /\ \A i \in DOMAIN last.ret : last.ret[i] \notin I(L)

(***************************************************************************)
(* One peer that authors between deliveries: patches arrive one at a time,  *)
(* and the peer may commit once more than Spec lets it, so that a commit    *)
(* can follow three rows of st_patches.                                     *)
(***************************************************************************)
AuthorBatches == {<<q>> : q \in Valid}

\* Peer::commit
AuthorCommit(p, data) ==
    /\ Len(store[p].st_patches) <= MaxPatches
    /\ LET r == Peer_commit(p, PeerOf(p), data)
       IN  /\ store' = [store EXCEPT ![p] = r.s]
           /\ heads' = [heads EXCEPT ![p] = r.heads]
           /\ last' = [op |-> "commit", peer |-> p, res |-> r.res,
                       ret |-> <<r.patch.id>>, log |-> <<>>]

NextAuthor ==
    \/ \E data \in Payloads : AuthorCommit(L, data) /\ UNCHANGED phase
    \/ \E batch \in AuthorBatches : Integrate(L, batch) /\ UNCHANGED phase

SpecAuthor == Init /\ [][NextAuthor]_vars

(***************************************************************************)
(* C22  Peer::commit always meets the precondition of ObjectStore.commit:   *)
(* after any sequence of commit and integrate calls on a store that only    *)
(* this peer writes, the patch it authors has every dep in I and an ID that *)
(* is not in I, so commit never fails, the same payload committed twice     *)
(* included.                                                                *)
(***************************************************************************)
CommitPrecondition ==
    last.op = "commit" =>
        /\ last.res = "Ok"
        /\ parents(last.ret[1]) \subseteq I(L)

====
